---- MODULE Spec2Model ----
(***************************************************************************)
(* Model of scripts/fit_bexar_mask.py: load_data, model_and_fit, forecast, *)
(* plot and pipeline.                                                      *)
(*                                                                         *)
(* Conventions.  A numpy array / torch tensor / pandas column is a TLA+    *)
(* sequence; Python index i is TLA+ index i + 1 (operator At).  A float    *)
(* that the code computes by dividing is kept exact: mobility fractions    *)
(* and reporting rates are integers counted in hundredths (1.0 is 100),    *)
(* and a quotient is a record [num, den] whose den = 0 stands for the      *)
(* inf/nan numpy produces on a division by zero.  The batch dimension of   *)
(* size 1 that pipeline adds to X and Y is left out.                       *)
(***************************************************************************)
EXTENDS Integers, Sequences, FiniteSets, TLC

VARIABLES
    params,        \* the argparse namespace handed to pipeline
    rawLength,     \* number of rows of the data frame retrieve_data returns
    simId,         \* which deterministic simulator SIRNet stands for
    pc,            \* position of pipeline: load, fit, forecast, plot, done, error
    error,         \* the exception that ended the run and where it was raised
    mobility,      \* load_data's mobility (aligned once load_data returned)
    cases,         \* load_data's cases
    day0,          \* date of index 0 of the aligned series
    prev_cases,    \* case count preceding day0
    dates,         \* the date axis pipeline builds
    i,             \* 1-based position in params.reporting_rates
    X,             \* input tensor of the current iteration
    Y,             \* rescaled cases of the current iteration
    scale_factor,  \* population * reporting_rate of the current iteration
    model,         \* the fitted model of the current iteration
    files,         \* weights files: path -> number of times it was written
    calls,         \* the calls of model_and_fit made so far, in order
    failedAt,      \* iteration whose fit raised, 0 when none did
    rXs,           \* last forecast: scenario -> trajectory passed to the model
    reports,       \* last forecast: scenario -> the printed peak
    forecasts,     \* reporting rates whose forecast was stored, in order
    actives,       \* reporting rate -> scenario -> active series
    totals,        \* reporting rate -> scenario -> total series
    plotted        \* plot was entered

vars == <<params, rawLength, simId, pc, error, mobility, cases, day0,
          prev_cases, dates, i, X, Y, scale_factor, model, files, calls,
          failedAt, rXs, reports, forecasts, actives, totals, plotted>>

----------------------------------------------------------------------------
(* Bounds of the model *)

MaxRawLength == 5
MaxDelayDays == 2
MaxStartModel == 2
MaxMaskDay == 5
MaxForecastDays == 2
NumSims == 2

(* Program constants *)

NumColumns == 6
MandateColumn == 5
One == 100
Anomaly == 17
IncubationDays == 5
EstimatedR0Tenths == 22
PlotLead == 60
PlotZoomLead == 10
SimMod == 7

----------------------------------------------------------------------------
(* Python sequence semantics *)

Min(a, b) == IF a < b THEN a ELSE b

Max(a, b) == IF a > b THEN a ELSE b

At(seq, k) == seq[k + 1]

\* A slice bound as Python normalises it: a negative bound counts from the
\* end, and every bound is clamped to 0 .. n.
NormIndex(k, n) == IF k < 0 THEN Max(k + n, 0) ELSE Min(k, n)

\* seq[start:stop]
PySlice(seq, start, stop) ==
    LET lo == NormIndex(start, Len(seq))
        hi == NormIndex(stop, Len(seq))
    IN  IF lo < hi THEN SubSeq(seq, lo + 1, hi) ELSE <<>>

\* seq[start:]
PySliceFrom(seq, start) == PySlice(seq, start, Len(seq))

\* seq[:stop]
PySliceTo(seq, stop) == PySlice(seq, 0, stop)

RECURSIVE SumSeq(_)
SumSeq(seq) == IF seq = <<>> THEN 0 ELSE Head(seq) + SumSeq(Tail(seq))

----------------------------------------------------------------------------
(* The data frame retrieve_data.get_data returns: rawLength rows, row k    *)
(* (Python index k) holding a date, six mobility percentages of change, a  *)
(* cumulative case count and the population.                               *)

DateBase == 18300

Population == 10

RawDate(k) == DateBase + k

RawCaseCount(k) == 3 * k + (k % 2)

RawMobilityRow(k) == [j \in 1..NumColumns |-> ((7 * k + 3 * j) % 40) - 30]

RawCases(n) == [k \in 1..n |-> RawCaseCount(k - 1)]

RawMobility(n) == [k \in 1..n |-> RawMobilityRow(k - 1)]

----------------------------------------------------------------------------
(* Exact quotients *)

Ratio(c) == [num |-> c, den |-> 1]

\* r / sf, where sf is counted in hundredths
Divide(r, sf) == [num |-> r.num * One, den |-> r.den * sf]

----------------------------------------------------------------------------
(* load_data *)

TotalDelay(p) == p.delay_days + p.start_model

\* df['date'][total_delay] and cases[...] look a label up in the frame's
\* RangeIndex: a label outside 0 .. n-1 raises KeyError.
HasLabel(k, n) == k >= 0 /\ k < n

PrevCasesIndex(p) == TotalDelay(p) - (IF TotalDelay(p) > 0 THEN 1 ELSE 0)

\* cases = np.array(cases[params.delay_days:])
DelayedCases(p, n) ==
    LET c == PySliceFrom(RawCases(n), p.delay_days)
    IN  [k \in 1..Len(c) |-> Ratio(c[k])]

\* mobility = np.array(mobility[:-params.delay_days])
DelayedMobility(p, n) == PySliceTo(RawMobility(n), -p.delay_days)

\* mobility[-1][-1] = 17.0 ; defined on a non-empty array only
PatchAnomaly(mob) ==
    [mob EXCEPT ![Len(mob)] = [@ EXCEPT ![NumColumns] = Anomaly]]

\* mobility[:, :6] = 1.0 + mobility[:, :6] / 100.0
ToFractions(mob) ==
    [t \in 1..Len(mob) |->
        [j \in 1..NumColumns |-> One + (One * mob[t][j]) \div 100]]

\* a[:, 5] = 0
ZeroMandate(a) ==
    [t \in 1..Len(a) |-> [a[t] EXCEPT ![MandateColumn + 1] = 0]]

\* a[day:, 5] = 1.0
MaskFrom(a, day) ==
    LET from == NormIndex(day, Len(a))
    IN  [t \in 1..Len(a) |->
            IF t - 1 >= from THEN [a[t] EXCEPT ![MandateColumn + 1] = One]
            ELSE a[t]]

\* mobility[:, 5] = 0 ; if mask_modifier: mobility[mask_day:, 5] = 1.0
SetMandate(mob, p) ==
    IF p.mask_modifier THEN MaskFrom(ZeroMandate(mob), p.mask_day)
    ELSE ZeroMandate(mob)

FormattedMobility(p, n) ==
    SetMandate(ToFractions(PatchAnomaly(DelayedMobility(p, n))), p)

\* Variant: the mandate is written after the first start_model rows are dropped.
AlignedMobilityMaskLate(p, n) ==
    SetMandate(PySliceFrom(ToFractions(PatchAnomaly(DelayedMobility(p, n))),
                           p.start_model), p)

\* mobility = mobility[params.start_model:]
AlignedMobility(p, n) == PySliceFrom(FormattedMobility(p, n), p.start_model)

\* cases = cases[params.start_model:]
AlignedCases(p, n) == PySliceFrom(DelayedCases(p, n), p.start_model)

\* The exception load_data raises, "none" when it returns.
LoadError(p, n) ==
    IF ~HasLabel(TotalDelay(p), n) THEN "KeyError"
    ELSE IF DelayedMobility(p, n) = <<>> THEN "IndexError"
    ELSE "none"

----------------------------------------------------------------------------
(* pipeline: names, dates, scaling *)

Lower(w) == IF w = "County" THEN "county" ELSE w

\* params.county without a trailing ' county' (any case); the county is a
\* sequence of words.
CountyName(county) ==
    IF Len(county) > 1 /\ Lower(county[Len(county)]) = "county"
    THEN SubSeq(county, 1, Len(county) - 1)
    ELSE county

WeightsDirBase(p) ==
    <<"model_weights", IF p.weights_dir # "" THEN p.weights_dir ELSE "timestamp">>

DigitChars == <<"0", "1", "2", "3", "4", "5", "6", "7", "8", "9">>

RECURSIVE Digits(_)
Digits(n) ==
    IF n < 10 THEN <<DigitChars[n + 1]>>
    ELSE Digits(n \div 10) \o <<DigitChars[(n % 10) + 1]>>

\* '{}'.format(reporting_rate) for a rate of r hundredths: the shortest
\* decimal that reads back as the same float (0.05, 0.1, 1.0, 1.5).
FormatFloat(r) ==
    LET whole == r \div One
        frac  == r % One
    IN  Digits(whole) \o <<".">> \o
        (IF frac % 10 = 0 THEN <<DigitChars[(frac \div 10) + 1]>>
         ELSE <<DigitChars[(frac \div 10) + 1], DigitChars[(frac % 10) + 1]>>)

\* Variant: the name the commented-out lines build, '{}_weights.pt'.
WeightsNameCountyOnly(p, rate) ==
    <<WeightsDirBase(p), CountyName(p.county) \o <<"_weights.pt">>>>

\* pjoin(weights_dir_base, '{}_report{}_weights.pt'.format(county_name, rate))
WeightsName(p, rate) ==
    <<WeightsDirBase(p),
      CountyName(p.county) \o <<"_report">> \o FormatFloat(rate)
          \o <<"_weights.pt">>>>

\* dates = [date0 + timedelta(days=d) for d in arange(shape[0] + forecast_days)]
Dates(d0, historyLength, p) ==
    [k \in 1..(historyLength + p.forecast_days) |-> d0 + (k - 1)]

\* scale_factor = population * reporting_rate, in hundredths
ScaleFactor(population, rate) == population * rate

\* Y = Y / scale_factor : a new array
RescaleCases(c, sf) == [t \in 1..Len(c) |-> Divide(c[t], sf)]

\* Variant: Y /= scale_factor, which divides the array `cases` names.
CasesAfterRescaleInPlace(c, sf) == RescaleCases(c, sf)

\* ... which leaves the array `cases` names as it was
CasesAfterRescale(c, sf) == c

----------------------------------------------------------------------------
(* model_and_fit *)

\* i0 = float(prev_cases) / scale_factor
InitialI0(prev, sf) == Divide(Ratio(prev), sf)

\* e0 = params.estimated_r0 * i0 / params.incubation_days
InitialE0(i0) ==
    [num |-> EstimatedR0Tenths * i0.num, den |-> 10 * IncubationDays * i0.den]

RECURSIVE RatioDigest(_)
RatioDigest(y) ==
    IF y = <<>> THEN 0
    ELSE (Head(y).num + Head(y).den + 3 * RatioDigest(Tail(y))) % SimMod

RECURSIVE RowsDigest(_)
RowsDigest(x) ==
    IF x = <<>> THEN 0
    ELSE (SumSeq(Head(x)) + 2 * RowsDigest(Tail(x))) % SimMod

\* The simulator: trainer.build_model(e0, i0) followed by trainer.train
\* yields parameters that are a function of the initial conditions and of
\* the series fitted, and of nothing else.
TrainedModel(sim, e0, i0, x, y) ==
    [sim |-> sim,
     key |-> (e0.num + e0.den + i0.num + i0.den + RatioDigest(y)
              + RowsDigest(x)) % SimMod]

\* model(rX): one (infectious, removed) pair of non-negative fractions per
\* row of the trajectory.
Forward(m, rX) ==
    [t \in 1..Len(rX) |->
        [inf |-> (m.key + m.sim * t * t + SumSeq(rX[t])) % SimMod,
         rem |-> (m.key * m.sim + 2 * t + rX[t][MandateColumn + 1]) % SimMod]]

----------------------------------------------------------------------------
(* forecast *)

\* Variant: the mandate entry is not cleared.
FutureRowUncleared(case) == [j \in 1..NumColumns |-> (One * case) \div 100]

\* xN = torch.ones((1, 6)) * case / 100 ; xN[0, 5] = 0
FutureRow(case) ==
    [j \in 1..NumColumns |->
        IF j = MandateColumn + 1 THEN 0 ELSE (One * case) \div 100]

\* rX = xN.expand(forecast_days, ...)
FutureBlock(case, p) == [k \in 1..p.forecast_days |-> FutureRow(case)]

\* rX = torch.cat((X, rX)) ; if mask_modifier: rX[mask_day:, 0, 5] = 1.0
Trajectory(x, case, p) ==
    LET cat == x \o FutureBlock(case, p)
    IN  IF p.mask_modifier THEN MaskFrom(cat, p.mask_day) ELSE cat

\* active[case] = s[:, 0] * scale_factor
ActiveSeries(s, sf) == [t \in 1..Len(s) |-> s[t].inf * sf]

\* Variant: the removed compartment alone.
TotalSeriesRemovedOnly(s, sf) == [t \in 1..Len(s) |-> s[t].rem * sf]

\* total[case] = (s[:, 0] + s[:, 1]) * scale_factor
TotalSeries(s, sf) == [t \in 1..Len(s) |-> (s[t].inf + s[t].rem) * sf]

\* np.max of a non-empty series
MaxOf(a) == CHOOSE v \in {a[t] : t \in 1..Len(a)} :
                \A t \in 1..Len(a) : a[t] <= v

\* Variant: np.argmin, the first Python index holding the minimum.
ArgMin(a) ==
    (CHOOSE t \in 1..Len(a) :
        /\ \A u \in 1..Len(a) : a[t] <= a[u]
        /\ \A u \in 1..(t - 1) : a[u] # a[t]) - 1

\* np.argmax: the first Python index holding the maximum
ArgMax(a) ==
    (CHOOSE t \in 1..Len(a) :
        /\ a[t] = MaxOf(a)
        /\ \A u \in 1..(t - 1) : a[u] # MaxOf(a)) - 1

Scenarios(p) == {p.mobility_cases[k] : k \in 1..Len(p.mobility_cases)}

\* The dictionaries forecast returns and the lines it prints.
ForecastTrajectories(x, p) ==
    [c \in Scenarios(p) |-> Trajectory(x, c, p)]

ForecastActive(x, m, sf, p) ==
    [c \in Scenarios(p) |-> ActiveSeries(Forward(m, Trajectory(x, c, p)), sf)]

ForecastTotal(x, m, sf, p) ==
    [c \in Scenarios(p) |-> TotalSeries(Forward(m, Trajectory(x, c, p)), sf)]

\* dates[idx] raises IndexError past the end of the date axis
ForecastError(x, m, d, sf, p) ==
    IF \E c \in Scenarios(p) : ArgMax(ForecastActive(x, m, sf, p)[c]) >= Len(d)
    THEN "IndexError" ELSE "none"

ForecastReports(x, m, d, sf, p) ==
    [c \in Scenarios(p) |->
        LET a == ForecastActive(x, m, sf, p)[c]
        IN  [max |-> MaxOf(a), idx |-> ArgMax(a), date |-> At(d, ArgMax(a))]]

----------------------------------------------------------------------------
(* plot *)

PlotStyles == {25, 50, 75, 100}

PlotRates == {5, 10, 30}

\* The first exception plot raises, "none" when it draws all three figures.
\* gt = np.squeeze(cases) has no axis 0 when there is a single case; the
\* dictionaries are read at the hard-coded rates and scenarios; the letters
\* are written at dates[pidx].
PlotError(c, act, tot, d, p) ==
    LET n      == Len(c)
        at(k)  == p.mobility_cases[k]
        count  == Len(p.mobility_cases)
        shift(k) == IF at(k) = 50 THEN 5 ELSE 0
    IN  IF n = 1 THEN "IndexError"
        ELSE IF count = 0 THEN "none"
        ELSE IF 10 \notin DOMAIN tot THEN "KeyError"
        ELSE IF at(1) \notin PlotStyles THEN "KeyError"
        ELSE IF ~(PlotRates \subseteq DOMAIN tot) THEN "KeyError"
        ELSE IF n + PlotLead >= Len(d) THEN "IndexError"
        ELSE IF \E k \in 1..count : at(k) \notin PlotStyles THEN "KeyError"
        ELSE IF \E k \in 1..count : n + PlotZoomLead + shift(k) >= Len(d)
             THEN "IndexError"
        ELSE IF \E k \in 1..count : ArgMax(act[10][at(k)]) + shift(k) >= Len(d)
             THEN "IndexError"
        ELSE "none"

----------------------------------------------------------------------------
(* The runs explored *)

MaxRates == 2

RateChoices == {0, 5, 10, 30}

RateLists == UNION {[1..n -> RateChoices] : n \in 1..MaxRates}

DefaultRates == <<5, 10, 30>>

ScenarioLists == {<<100>>, <<25, 50>>, <<25, 50, 75, 100>>}

DefaultCounty == <<"Bexar", "County">>

NoModel == [sim |-> 0, key |-> 0]

NoError == [in |-> "", what |-> "none"]

Raised(where, what) == [in |-> where, what |-> what]

Rates == params.reporting_rates

Rate == Rates[i]

InitState ==
    /\ pc = "load"
    /\ error = NoError
    /\ mobility = <<>>
    /\ cases = <<>>
    /\ day0 = 0
    /\ prev_cases = 0
    /\ dates = <<>>
    /\ i = 1
    /\ X = <<>>
    /\ Y = <<>>
    /\ scale_factor = 0
    /\ model = NoModel
    /\ files = <<>>
    /\ calls = <<>>
    /\ failedAt = 0
    /\ rXs = <<>>
    /\ reports = <<>>
    /\ forecasts = <<>>
    /\ actives = <<>>
    /\ totals = <<>>
    /\ plotted = FALSE

Params(d, s, mm, m, f, rr, mc) ==
    [county |-> DefaultCounty, weights_dir |-> "",
     delay_days |-> d, start_model |-> s, mask_modifier |-> mm,
     mask_day |-> m, forecast_days |-> f,
     reporting_rates |-> rr, mobility_cases |-> mc]

\* Every alignment of the time axes, with the default reporting rates.
Init ==
    /\ rawLength \in 1..MaxRawLength
    /\ simId \in 1..NumSims
    /\ \E d \in 0..MaxDelayDays, s \in 0..MaxStartModel, mm \in BOOLEAN,
          m \in 0..MaxMaskDay, f \in 0..MaxForecastDays, mc \in ScenarioLists :
          params = Params(d, s, mm, m, f, DefaultRates, mc)
    /\ InitState

\* Every list of reporting rates, over a few alignments.
InitRates ==
    /\ rawLength = MaxRawLength
    /\ simId \in 1..NumSims
    /\ \E s \in 0..1, mm \in BOOLEAN, rr \in RateLists,
          mc \in {<<100>>, <<25, 50>>} :
          params = Params(1, s, mm, 2, MaxForecastDays, rr, mc)
    /\ InitState

----------------------------------------------------------------------------
(* Actions *)

\* pipeline up to its loop: load_data, the weights directory, the date axis
LoadData ==
    /\ pc = "load"
    /\ LET err == LoadError(params, rawLength)
       IN  IF err # "none"
           THEN /\ pc' = "error"
                /\ error' = Raised("load_data", err)
                /\ UNCHANGED <<mobility, cases, day0, prev_cases, dates>>
           ELSE /\ mobility' = AlignedMobility(params, rawLength)
                /\ cases' = AlignedCases(params, rawLength)
                /\ day0' = RawDate(TotalDelay(params))
                /\ prev_cases' = RawCaseCount(PrevCasesIndex(params))
                /\ dates' = Dates(day0', Len(mobility'), params)
                /\ pc' = IF Rates = <<>> THEN "plot" ELSE "fit"
                /\ error' = error
    /\ UNCHANGED <<params, rawLength, simId, i, X, Y, scale_factor, model,
                   files, calls, failedAt, rXs, reports, forecasts, actives,
                   totals, plotted>>

\* What the loop body does before the simulator is trained: the rescaling and
\* the call of model_and_fit with its weights file.
EnterFit ==
    /\ scale_factor' = ScaleFactor(Population, Rate)
    /\ X' = mobility
    /\ Y' = RescaleCases(cases, scale_factor')
    /\ cases' = CasesAfterRescale(cases, scale_factor')
    /\ calls' = Append(calls,
                  [rate |-> Rate,
                   weights_name |-> WeightsName(params, Rate),
                   scale_factor |-> scale_factor',
                   i0 |-> InitialI0(prev_cases, scale_factor'),
                   length |-> Len(X')])

\* Variant: the failure is caught and the loop goes on to the next rate.
AfterFitFailureContinue(k, p) ==
    [pc |-> IF k < Len(p.reporting_rates) THEN "fit" ELSE "plot", i |-> k + 1]

\* What pipeline does when trainer.train raises: nothing catches it.
AfterFitFailure(k, p) == [pc |-> "error", i |-> k]

\* One iteration up to `Done training.`
ModelAndFit ==
    /\ pc = "fit"
    /\ EnterFit
    /\ LET i0 == InitialI0(prev_cases, scale_factor')
           w  == WeightsName(params, Rate)
       IN  /\ model' = TrainedModel(simId, InitialE0(i0), i0, X', Y')
           /\ files' = [f \in DOMAIN files \cup {w} |->
                           IF f = w
                           THEN (IF w \in DOMAIN files THEN files[w] ELSE 0) + 1
                           ELSE files[f]]
    /\ pc' = "forecast"
    /\ UNCHANGED <<params, rawLength, simId, error, mobility, day0,
                   prev_cases, dates, i, failedAt, rXs, reports, forecasts,
                   actives, totals, plotted>>

\* One iteration whose fit fails inside the simulator
FitFails ==
    /\ pc = "fit"
    /\ EnterFit
    /\ failedAt' = i
    /\ error' = Raised("model_and_fit", "ConvergenceFailure")
    /\ pc' = AfterFitFailure(i, params).pc
    /\ i' = AfterFitFailure(i, params).i
    /\ UNCHANGED <<params, rawLength, simId, mobility, day0, prev_cases,
                   dates, model, files, rXs, reports, forecasts, actives,
                   totals, plotted>>

\* forecast and the two assignments that store its result
Forecast ==
    /\ pc = "forecast"
    /\ IF ForecastError(X, model, dates, scale_factor, params) # "none"
       THEN /\ pc' = "error"
            /\ error' = Raised("forecast",
                   ForecastError(X, model, dates, scale_factor, params))
            /\ UNCHANGED <<i, rXs, reports, forecasts, actives, totals>>
       ELSE /\ rXs' = ForecastTrajectories(X, params)
            /\ reports' = ForecastReports(X, model, dates, scale_factor, params)
            /\ actives' = [r \in DOMAIN actives \cup {Rate} |->
                              IF r = Rate
                              THEN ForecastActive(X, model, scale_factor, params)
                              ELSE actives[r]]
            /\ totals' = [r \in DOMAIN totals \cup {Rate} |->
                              IF r = Rate
                              THEN ForecastTotal(X, model, scale_factor, params)
                              ELSE totals[r]]
            /\ forecasts' = Append(forecasts, Rate)
            /\ i' = i + 1
            /\ pc' = IF i < Len(Rates) THEN "fit" ELSE "plot"
            /\ error' = error
    /\ UNCHANGED <<params, rawLength, simId, mobility, cases, day0,
                   prev_cases, dates, X, Y, scale_factor, model, files, calls,
                   failedAt, plotted>>

Plot ==
    /\ pc = "plot"
    /\ plotted' = TRUE
    /\ LET err == PlotError(cases, actives, totals, dates, params)
       IN  /\ error' = IF err = "none" THEN error ELSE Raised("plot", err)
           /\ pc' = IF err = "none" THEN "done" ELSE "error"
    /\ UNCHANGED <<params, rawLength, simId, mobility, cases, day0,
                   prev_cases, dates, i, X, Y, scale_factor, model, files,
                   calls, failedAt, rXs, reports, forecasts, actives, totals>>

Next == LoadData \/ ModelAndFit \/ FitFails \/ Forecast \/ Plot

Spec == Init /\ [][Next]_vars

SpecRates == InitRates /\ [][Next]_vars

----------------------------------------------------------------------------
(* Properties *)

Loaded == pc # "load" /\ error.in # "load_data"

HistoryLength == Len(mobility)

Mandate(row) == row[MandateColumn + 1]

ValidAlignment ==
    /\ params.delay_days >= 0
    /\ params.start_model >= 0
    /\ params.delay_days + params.start_model < rawLength

\* C1: for every valid configuration (delay_days >= 0, start_model >= 0,
\* delay_days + start_model < rawLength, delay_days = 0 included) load_data
\* returns, and the mobility and case series it returns have the same length,
\* rawLength - delay_days - start_model.
C1_AlignedLengths ==
    (pc # "load" /\ ValidAlignment) =>
        /\ error.in # "load_data"
        /\ Len(mobility) = Len(cases)
        /\ Len(cases) = rawLength - params.delay_days - params.start_model

\* C2: in the aligned mobility series the mandate column is 0 at every index
\* when mask_modifier is off; when it is on it is 0 at every index below
\* mask_day - start_model and 1 at every index at or above it.
C2_MandateStep ==
    Loaded =>
        \A k \in 0..(HistoryLength - 1) :
            Mandate(At(mobility, k)) =
                IF params.mask_modifier
                   /\ k >= params.mask_day - params.start_model
                THEN One ELSE 0

\* C2 happens: mask-modeling is on, rows were dropped from the front, and the
\* transition lies strictly inside the aligned series.
C2_Witness ==
    /\ Loaded
    /\ params.mask_modifier
    /\ params.start_model > 0
    /\ params.mask_day - params.start_model > 0
    /\ params.mask_day - params.start_model < HistoryLength
    /\ Mandate(At(mobility, params.mask_day - params.start_model)) = One
    /\ Mandate(At(mobility, params.mask_day - params.start_model - 1)) = 0

\* C3: whenever model_and_fit is entered the configuration is valid: the
\* aligned series is non-empty, the reporting rate lies in (0, 1] and the
\* scale factor is greater than 0.
C3_FitOnlyWhenValid ==
    \A k \in 1..Len(calls) :
        /\ calls[k].length > 0
        /\ calls[k].rate > 0
        /\ calls[k].rate <= One
        /\ calls[k].scale_factor > 0

\* C4 as stated: no two iterations of the reporting-rate loop pass the same
\* weights file path to model_and_fit, so every file is written at most once.
C4_AllPathsDistinct ==
    /\ \A j, k \in 1..Len(calls) :
          j # k => calls[j].weights_name # calls[k].weights_name
    /\ \A f \in DOMAIN files : files[f] <= 1

\* C4 amended: two iterations pass the same weights file path exactly when
\* their reporting rates are equal; a file is written at most once for each
\* iteration that names it.
C4_PathsDistinctPerRate ==
    /\ \A j, k \in 1..Len(calls) :
          (calls[j].weights_name = calls[k].weights_name)
              <=> (calls[j].rate = calls[k].rate)
    /\ \A f \in DOMAIN files :
          files[f] <= Cardinality({k \in 1..Len(calls) :
                                      calls[k].weights_name = f})

\* C4 happens: two fits with different rates have written two files.
C4_Witness ==
    /\ Len(calls) = 2
    /\ calls[1].rate # calls[2].rate
    /\ Cardinality(DOMAIN files) = 2

\* C5: for every reporting rate, scenario and day index t of a stored
\* forecast, total[t] >= active[t].
C5_TotalAtLeastActive ==
    \A r \in DOMAIN actives :
        \A c \in DOMAIN actives[r] :
            /\ Len(totals[r][c]) = Len(actives[r][c])
            /\ \A t \in 1..Len(actives[r][c]) :
                  totals[r][c][t] >= actives[r][c][t]

\* C5 happens: a stored forecast has a day with positive active cases and
\* strictly more total cases, and a day where the two are equal.
C5_Witness ==
    \E r \in DOMAIN actives :
        \E c \in DOMAIN actives[r] :
            /\ \E t \in 1..Len(actives[r][c]) :
                  /\ actives[r][c][t] > 0
                  /\ totals[r][c][t] > actives[r][c][t]
            /\ \E t \in 1..Len(actives[r][c]) :
                  /\ actives[r][c][t] > 0
                  /\ totals[r][c][t] = actives[r][c][t]

\* The forecast of reporting rate r computed from the loaded data alone,
\* whatever the position of r in the list of rates.
ReferenceModel(r) ==
    LET sf == ScaleFactor(Population, r)
        i0 == InitialI0(RawCaseCount(PrevCasesIndex(params)), sf)
    IN  TrainedModel(simId, InitialE0(i0), i0,
                     AlignedMobility(params, rawLength),
                     RescaleCases(AlignedCases(params, rawLength), sf))

ReferenceActive(r) ==
    ForecastActive(AlignedMobility(params, rawLength), ReferenceModel(r),
                   ScaleFactor(Population, r), params)

ReferenceTotal(r) ==
    ForecastTotal(AlignedMobility(params, rawLength), ReferenceModel(r),
                  ScaleFactor(Population, r), params)

\* C6: the results stored for a reporting rate do not depend on the order in
\* which the rates are processed: they are the forecast computed from the
\* aligned mobility, cases, population and prev_cases as load_data returned
\* them, which every iteration leaves unchanged.
C6_OrderIndependent ==
    /\ Loaded =>
          /\ mobility = AlignedMobility(params, rawLength)
          /\ cases = AlignedCases(params, rawLength)
          /\ prev_cases = RawCaseCount(PrevCasesIndex(params))
    /\ \A r \in DOMAIN actives :
          /\ actives[r] = ReferenceActive(r)
          /\ totals[r] = ReferenceTotal(r)

\* C6 happens: two different rates were processed in descending order (the
\* ascending order of the same two rates is another run).
C6_Witness ==
    /\ Len(forecasts) = 2
    /\ forecasts[1] > forecasts[2]
    /\ forecasts[2] > 0
    /\ DOMAIN actives = {forecasts[1], forecasts[2]}
    /\ actives[forecasts[1]] # actives[forecasts[2]]

\* C7: if the fit fails for some reporting rate the run ends there: that
\* iteration stores no forecast, no later rate is calibrated and plot is not
\* reached; plot is reached only after every rate was fitted and forecast.
C7_FitFailureAborts ==
    /\ failedAt # 0 =>
          /\ pc = "error"
          /\ error = Raised("model_and_fit", "ConvergenceFailure")
          /\ Len(calls) = failedAt
          /\ Len(forecasts) = failedAt - 1
          /\ (\A k \in 1..(failedAt - 1) : Rates[k] # Rates[failedAt])
                => Rates[failedAt] \notin DOMAIN actives
          /\ ~plotted
    /\ plotted =>
          /\ failedAt = 0
          /\ Len(calls) = Len(Rates)
          /\ forecasts = Rates

\* C7 happens: the fit of the first of two rates failed.
C7_Witness ==
    /\ failedAt = 1
    /\ Len(Rates) = 2
    /\ pc = "error"

LastActive == actives[forecasts[Len(forecasts)]]

\* C8: for every scenario the reported peak is the maximum of the active
\* series, the reported index is an index where it occurs (the only one when
\* the maximum is unique), and the reported date is dates[index]; the date
\* axis has historyLength + forecast_days entries, one per day of the series.
C8_PeakReport ==
    /\ Loaded => Len(dates) = HistoryLength + params.forecast_days
    /\ \A c \in DOMAIN reports :
          LET a == LastActive[c]
              r == reports[c]
          IN  /\ Len(a) = Len(dates)
              /\ r.idx >= 0 /\ r.idx < Len(a)
              /\ At(a, r.idx) = r.max
              /\ \A t \in 1..Len(a) : a[t] <= r.max
              /\ r.date = At(dates, r.idx)
              /\ r.date = day0 + r.idx

\* C8 happens: the active series of a scenario has a single maximum, and it
\* lies in the forecast part of the date axis.
C8_Witness ==
    \E c \in DOMAIN reports :
        /\ reports[c].idx >= HistoryLength
        /\ Cardinality({t \in 1..Len(LastActive[c]) :
                           LastActive[c][t] = reports[c].max}) = 1

\* C9: for every scenario p the trajectory passed to the model has length
\* historyLength + forecast_days, its first historyLength rows are the
\* aligned mobility, and in its last forecast_days rows every non-mandate
\* column is p/100 and, with mask-modeling off, the mandate column is 0.
C9_TrajectoryShape ==
    \A c \in DOMAIN rXs :
        /\ Len(rXs[c]) = HistoryLength + params.forecast_days
        /\ SubSeq(rXs[c], 1, HistoryLength) = mobility
        /\ \A t \in (HistoryLength + 1)..Len(rXs[c]) :
              /\ \A j \in 1..NumColumns :
                    j # MandateColumn + 1 => 100 * rXs[c][t][j] = One * c
              /\ ~params.mask_modifier => Mandate(rXs[c][t]) = 0

\* C9 happens: scenario 100 was forecast over a non-empty horizon with
\* mask-modeling off.
C9_Witness ==
    /\ 100 \in DOMAIN rXs
    /\ params.forecast_days > 0
    /\ ~params.mask_modifier
    /\ rXs[100][HistoryLength + 1][1] = One

\* C10: with mask-modeling on, the mandate column of the trajectory passed to
\* the model is persistent: once it is 1 at a day index it is 1 at every
\* later index.
C10_MandatePersistent ==
    params.mask_modifier =>
        \A c \in DOMAIN rXs :
            \A t, u \in 1..Len(rXs[c]) :
                (t < u /\ Mandate(rXs[c][t]) = One) => Mandate(rXs[c][u]) = One

====
